---- MODULE Spec2Model ----
\* Model of fetch.py: a batch downloader that walks a catalog of courses and
\* fetches every material into <output dir>/<course title>/<file name>.
\*
\* Strings are sequences of one-character strings, so that replace(), endswith(),
\* os.path.join() and os.path.dirname() are computed character by character.
EXTENDS Integers, Sequences, FiniteSets, TLC

VARIABLES
    pc,            \* position of the single thread of control
    args,          \* argparse namespace: which of json_file / json_string is given
    json_data,     \* the document text handed to json.loads
    data,          \* main: the parsed document
    ci,            \* main: index of the current course in data["data"]
    mi,            \* main: index of the current material in course["materials"]
    dirs,          \* file system: the directories that exist (resolved paths)
    files,         \* file system: resolved path -> content of the regular file
    response,      \* download_file: chunks of the response not yet written
    net,           \* network: the requests issued so far, <<ci, mi, url>>
    status,        \* per material: pending / skipped / downloading / completed / failed
    out,           \* console: the lines printed so far
    err,           \* the exception that ended the program ("none" while there is none)
    exit_status,   \* process exit status; -1 while the process runs
    filename,      \* sanitize_filename under test: its argument
    result,        \* sanitize_filename under test: sanitize_filename(filename)
    result2        \* sanitize_filename under test: sanitize_filename(result)

vars == <<pc, args, json_data, data, ci, mi, dirs, files, response, net, status,
          out, err, exit_status, filename, result, result2>>

-----------------------------------------------------------------------------
\* Bounds of the model.

\* Largest number of courses in a catalog.
MaxCourses == 2
\* Largest number of materials in a catalog, all courses together.
MaxMaterials == 2
\* Number of chunks iter_content yields for a response body.
NumChunks == 2
\* Longest argument of sanitize_filename in the specification SpecSanitize.
MaxLen == 2

-----------------------------------------------------------------------------
\* Strings.

Str_Unknown == <<"U", "n", "k", "n", "o", "w", "n">>
Str_unknown_file == <<"u", "n", "k", "n", "o", "w", "n", "_", "f", "i", "l", "e">>
Str_downloads == <<"d", "o", "w", "n", "l", "o", "a", "d", "s">>

\* str.endswith(suffix)
EndsWith(s, suffix) ==
    /\ Len(suffix) <= Len(s)
    /\ SubSeq(s, Len(s) - Len(suffix) + 1, Len(s)) = suffix

\* str.replace(old, new) for a one-character old
Replace(s, old, new) == [i \in 1..Len(s) |-> IF s[i] = old THEN new ELSE s[i]]

\* dict.get(key, default)
Get(d, key, default) == IF key \in DOMAIN d THEN d[key] ELSE default

-----------------------------------------------------------------------------
\* sanitize_filename

\* the list without its last character
invalid_chars_short == <<"<", ">", ":", "\"", "/", "\\", "|", "?">>

invalid_chars == <<"<", ">", ":", "\"", "/", "\\", "|", "?", "*">>

RECURSIVE ReplaceEach(_, _, _)
\* the loop "for char in invalid_chars: filename = filename.replace(char, '_')",
\* from its k-th iteration on
ReplaceEach(s, chars, k) ==
    IF k > Len(chars) THEN s
    ELSE ReplaceEach(Replace(s, chars[k], "_"), chars, k + 1)

sanitize_filename(s) == ReplaceEach(s, invalid_chars, 1)

-----------------------------------------------------------------------------
\* Paths and the file system.

Sep == "/"

\* os.path.join(a, b) (POSIX)
Join(a, b) ==
    IF Len(b) > 0 /\ b[1] = Sep THEN b
    ELSE IF Len(a) = 0 \/ a[Len(a)] = Sep THEN a \o b
    ELSE a \o <<Sep>> \o b

\* position of the last separator of p, 0 if there is none
LastSep(p) ==
    LET S == {i \in 1..Len(p) : p[i] = Sep}
    IN IF S = {} THEN 0 ELSE CHOOSE i \in S : \A j \in S : j <= i

RECURSIVE RStripSep(_)
RStripSep(p) ==
    IF Len(p) > 0 /\ p[Len(p)] = Sep THEN RStripSep(SubSeq(p, 1, Len(p) - 1)) ELSE p

\* os.path.dirname(p) (POSIX): the head up to the last separator, without its
\* trailing separators unless it consists of separators only
Dirname(p) ==
    LET head == SubSeq(p, 1, LastSep(p))
    IN IF RStripSep(head) = <<>> THEN head ELSE RStripSep(head)

RECURSIVE Split(_, _, _)
\* the non-empty components of p[k..], cur being the component under construction
Split(p, k, cur) ==
    IF k > Len(p) THEN (IF cur = <<>> THEN <<>> ELSE <<cur>>)
    ELSE IF p[k] = Sep
         THEN (IF cur = <<>> THEN <<>> ELSE <<cur>>) \o Split(p, k + 1, <<>>)
         ELSE Split(p, k + 1, Append(cur, p[k]))

\* the file-system node a relative path names: its non-empty components
\* (the kernel ignores repeated and trailing separators)
Resolve(p) == Split(p, 1, <<>>)

Prefixes(n) == {SubSeq(n, 1, k) : k \in 0..Len(n)}

IsDir(fs_dirs, n) == n \in fs_dirs
IsFile(fs_files, n) == n \in DOMAIN fs_files

\* os.makedirs(p, exist_ok=True) succeeds unless a component of p is a regular file
MakedirsOk(fs_files, p) == \A n \in Prefixes(Resolve(p)) : ~IsFile(fs_files, n)
\* the directories after a successful os.makedirs(p, exist_ok=True)
Makedirs(fs_dirs, p) == fs_dirs \cup Prefixes(Resolve(p))

\* open(p, 'wb') can succeed: p names no directory, has no trailing separator,
\* and its parent is an existing directory
OpenOk(fs_dirs, fs_files, p) ==
    LET n == Resolve(p)
    IN /\ Len(p) > 0 /\ p[Len(p)] # Sep
       /\ Len(n) > 0
       /\ ~IsDir(fs_dirs, n)
       /\ IsDir(fs_dirs, SubSeq(n, 1, Len(n) - 1))
       /\ ~IsFile(fs_files, SubSeq(n, 1, Len(n) - 1))

\* the files after open(p, 'ab'): an existing file keeps its content
Truncate_append(fs_files, p) ==
    LET n == Resolve(p)
    IN [m \in DOMAIN fs_files \cup {n} |-> IF m \in DOMAIN fs_files THEN fs_files[m] ELSE <<>>]

\* the files after open(p, 'wb'): the file exists and is empty
Truncate(fs_files, p) ==
    LET n == Resolve(p)
    IN [m \in DOMAIN fs_files \cup {n} |-> IF m = n THEN <<>> ELSE fs_files[m]]

\* the files after file.write(chunk) on the file opened at p
WriteChunk(fs_files, p, chunk) ==
    LET n == Resolve(p)
    IN [m \in DOMAIN fs_files |-> IF m = n THEN Append(fs_files[m], chunk) ELSE fs_files[m]]

-----------------------------------------------------------------------------
\* The inputs: argparse namespaces and document texts.

\* the material dicts: without keys (default name, empty link), a file, and a
\* placeholder whose link ends with the uuid of its course
MaterialSet ==
    {<<>>,
     [fileName |-> <<":">>, link |-> <<"h">>],
     [fileName |-> <<":">>, link |-> <<"h", "u">>]}

\* the course dicts with the materials l: without other keys (default title, no
\* uuid), and with a uuid and an empty title or a title to sanitize
CoursesWith(l) ==
    {[materials |-> l],
     [title |-> <<>>, uuid |-> <<"u">>, materials |-> l],
     [title |-> <<":">>, uuid |-> <<"u">>, materials |-> l]}

\* the same course dicts without the "materials" key
CoursesWithout ==
    {<<>>,
     [title |-> <<>>, uuid |-> <<"u">>],
     [title |-> <<":">>, uuid |-> <<"u">>]}

\* the courses with n materials; a course without materials may lack the key
CourseSet(n) ==
    UNION {CoursesWith(l) : l \in [1..n -> MaterialSet]}
        \cup (IF n = 0 THEN CoursesWithout ELSE {})

\* the courses of a catalog
AllCourses == UNION {CourseSet(n) : n \in 0..MaxMaterials}

RECURSIVE CountMaterials(_, _)
\* the number of materials of the courses cs[k..]
CountMaterials(cs, k) ==
    IF k > Len(cs) THEN 0
    ELSE (IF "materials" \in DOMAIN cs[k] THEN Len(cs[k].materials) ELSE 0)
         + CountMaterials(cs, k + 1)

\* cs is a list of courses within the bounds
IsCatalog(cs) == Len(cs) <= MaxCourses /\ CountMaterials(cs, 1) <= MaxMaterials

\* a document text: not well-formed, or well-formed JSON with its value, which
\* is a dict or a value of another type (a list, a number, ...)
MalformedText == [wf |-> FALSE, value |-> [type |-> "none", value |-> <<>>]]
ListText == [wf |-> TRUE, value |-> [type |-> "list", value |-> <<>>]]
DictText(d) == [wf |-> TRUE, value |-> [type |-> "dict", value |-> d]]

\* the texts a document file is read with: not well-formed, a list, a dict
\* without "data", a dict with one course
FileTexts ==
    {MalformedText, ListText, DictText(<<>>),
     DictText([data |-> <<[title |-> <<":">>, uuid |-> <<"u">>,
                          materials |-> <<[fileName |-> <<":">>, link |-> <<"h">>]>>]>>])}

NoText == [wf |-> FALSE, value |-> [type |-> "unset", value |-> <<>>]]

\* args after parser.parse_args(): whether json_file and a non-empty --json-string
\* are given, and the text of --json-string
ArgsSet ==
    {[json_file |-> f, json_string |-> FALSE, text |-> NoText] : f \in BOOLEAN}
    \cup {[json_file |-> f, json_string |-> TRUE, text |-> t] : f \in BOOLEAN, t \in FileTexts}

\* args with --json-string holding the catalog cs
CatalogArgs(cs) ==
    [json_file |-> FALSE, json_string |-> TRUE, text |-> DictText([data |-> cs])]

\* json.loads(text) raises JSONDecodeError unless the text is well-formed
json_loads_ok(text) == text.wf
json_loads(text) == text.value

-----------------------------------------------------------------------------
\* The catalog as main reads it.

Courses(d) == Get(d, "data", <<>>)
Materials(course) == Get(course, "materials", <<>>)
course_title(course) == sanitize_filename(Get(course, "title", Str_Unknown))
course_dir(course) == Join(Str_downloads, course_title(course))
file_name(material) == sanitize_filename(Get(material, "fileName", Str_unknown_file))
file_link(material) == Get(material, "link", <<>>)
file_path(course, material) == Join(course_dir(course), file_name(material))

\* line 67 without "not file_link or"
Skip_suffix_only(course, material) ==
    EndsWith(file_link(material), Get(course, "uuid", <<>>))

\* line 67 with a course without uuid taken to have no placeholders
Skip_uuid_required(course, material) ==
    \/ file_link(material) = <<>>
    \/ /\ "uuid" \in DOMAIN course
       /\ EndsWith(file_link(material), course["uuid"])

\* line 67: "if not file_link or file_link.endswith(course.get('uuid', ''))"
Skip(course, material) ==
    \/ file_link(material) = <<>>
    \/ EndsWith(file_link(material), Get(course, "uuid", <<>>))

\* the materials of the catalog, <<course index, material index>>
MaterialIds(d) ==
    {<<i, j>> : i \in 1..Len(Courses(d)), j \in 1..MaxMaterials} \cap
    UNION {{<<i, j>> : j \in 1..Len(Materials(Courses(d)[i]))} : i \in 1..Len(Courses(d))}

\* document order
Before(a, b) == a[1] < b[1] \/ (a[1] = b[1] /\ a[2] < b[2])

\* requests.get(url): the body of the remote resource, as iter_content yields it
RemoteBody(url) == [k \in 1..NumChunks |-> <<url, k>>]

-----------------------------------------------------------------------------
\* The program.

Init ==
    /\ pc = "args"
    /\ \/ args \in ArgsSet
       \/ \E k \in 0..MaxCourses : \E cs \in [1..k -> AllCourses] :
             IsCatalog(cs) /\ args = CatalogArgs(cs)
    /\ json_data = NoText
    /\ data = <<>>
    /\ ci = 0
    /\ mi = 0
    /\ dirs = {<<>>}
    /\ files = <<>>
    /\ response = <<>>
    /\ net = <<>>
    /\ status = <<>>
    /\ out = <<>>
    /\ err = "none"
    /\ exit_status = -1
    /\ filename = <<>>
    /\ result = <<>>
    /\ result2 = <<>>

sanitize_vars == <<filename, result, result2>>
main_vars == <<data, ci, mi, response, status>>
fs_vars == <<dirs, files>>

\* sys.exit(code) after print(line); e names the exception or condition handled
Exit(code, e, line) ==
    /\ pc' = "exit"
    /\ exit_status' = code
    /\ err' = e
    /\ out' = Append(out, line)

\* lines 93-94: "if args.json_string: json_data = args.json_string"
UseJsonString ==
    /\ pc = "args"
    /\ args.json_string
    /\ json_data' = args.text
    /\ pc' = "validate"
    /\ UNCHANGED <<args, main_vars, fs_vars, net, out, err, exit_status, sanitize_vars>>

\* lines 95-98: the document file is read
ReadJsonFile ==
    /\ pc = "args"
    /\ ~args.json_string /\ args.json_file
    /\ json_data' \in FileTexts
    /\ pc' = "validate"
    /\ UNCHANGED <<args, main_vars, fs_vars, net, out, err, exit_status, sanitize_vars>>

\* lines 99-101: the document file does not exist
JsonFileNotFound ==
    /\ pc = "args"
    /\ ~args.json_string /\ args.json_file
    /\ Exit(1, "FileNotFoundError", <<"Error: JSON file not found">>)
    /\ UNCHANGED <<args, json_data, main_vars, fs_vars, net, sanitize_vars>>

\* lines 102-104: the document file cannot be read
JsonFileUnreadable ==
    /\ pc = "args"
    /\ ~args.json_string /\ args.json_file
    /\ Exit(1, "ReadError", <<"Error reading JSON file">>)
    /\ UNCHANGED <<args, json_data, main_vars, fs_vars, net, sanitize_vars>>

\* lines 105-108: neither input source is given
NoInput ==
    /\ pc = "args"
    /\ ~args.json_string /\ ~args.json_file
    /\ Exit(1, "NoInput", <<"Error: Either a JSON file or JSON string must be provided">>)
    /\ UNCHANGED <<args, json_data, main_vars, fs_vars, net, sanitize_vars>>

\* main called without the validation of line 112
Validate_unchecked ==
    /\ pc = "validate"
    /\ pc' = "main"
    /\ UNCHANGED <<args, json_data, main_vars, fs_vars, net, out, err, exit_status, sanitize_vars>>

\* line 112: "json.loads(json_data)" validates the text before main is called
Validate ==
    /\ pc = "validate"
    /\ json_loads_ok(json_data)
    /\ pc' = "main"
    /\ UNCHANGED <<args, json_data, main_vars, fs_vars, net, out, err, exit_status, sanitize_vars>>

\* lines 112, 117-119: the text is not well-formed
InvalidJson ==
    /\ pc = "validate"
    /\ ~json_loads_ok(json_data)
    /\ Exit(1, "JSONDecodeError", <<"Error: Invalid JSON data">>)
    /\ UNCHANGED <<args, json_data, main_vars, fs_vars, net, sanitize_vars>>

\* lines 120-122 without "sys.exit(1)"
MainRaises_exit0(e) ==
    /\ Exit(0, e, <<"An error occurred", e>>)
    /\ UNCHANGED <<args, json_data, main_vars, fs_vars, net, sanitize_vars>>

\* lines 120-122: an exception leaves main
MainRaises(e) ==
    /\ Exit(1, e, <<"An error occurred", e>>)
    /\ UNCHANGED <<args, json_data, main_vars, fs_vars, net, sanitize_vars>>

\* line 46: "os.makedirs(base_dir, exist_ok=True)"
MakeBaseDir ==
    /\ pc = "main"
    /\ MakedirsOk(files, Str_downloads)
    /\ dirs' = Makedirs(dirs, Str_downloads)
    /\ pc' = "loads"
    /\ UNCHANGED <<args, json_data, main_vars, files, net, out, err, exit_status, sanitize_vars>>

\* line 46: the output directory cannot be created
MakeBaseDirFails ==
    /\ pc = "main"
    /\ MainRaises("OSError")

\* lines 49-52: "data = json.loads(json_data)", "data.get('data', [])"
Loads ==
    /\ pc = "loads"
    /\ json_loads_ok(json_data)
    /\ json_loads(json_data).type = "dict"
    /\ data' = json_loads(json_data).value
    /\ status' = [m \in MaterialIds(data') |-> "pending"]
    /\ ci' = 1
    /\ pc' = "course"
    /\ UNCHANGED <<args, json_data, mi, response, fs_vars, net, out, err, exit_status, sanitize_vars>>

\* line 52: the document is not a dict, "data.get" raises AttributeError
LoadsNotDict ==
    /\ pc = "loads"
    /\ json_loads_ok(json_data)
    /\ json_loads(json_data).type # "dict"
    /\ MainRaises("AttributeError")

course == Courses(data)[ci]
material == Materials(course)[mi]
\* the arguments of the running download_file
url == file_link(material)
destination_path == file_path(course, material)

\* lines 52-59: the next course; its directory is created
StartCourse ==
    /\ pc = "course"
    /\ ci <= Len(Courses(data))
    /\ MakedirsOk(files, course_dir(course))
    /\ dirs' = Makedirs(dirs, course_dir(course))
    /\ out' = Append(out, <<"Processing course", course_title(course)>>)
    /\ mi' = 1
    /\ pc' = "material"
    /\ UNCHANGED <<args, json_data, data, ci, response, status, files, net, err, exit_status, sanitize_vars>>

\* line 57: a regular file is in the way of the course directory
CourseDirExists ==
    /\ pc = "course"
    /\ ci <= Len(Courses(data))
    /\ ~MakedirsOk(files, course_dir(course))
    /\ MainRaises("FileExistsError")

\* line 57: the course directory cannot be created for another reason
CourseDirFails ==
    /\ pc = "course"
    /\ ci <= Len(Courses(data))
    /\ MainRaises("OSError")

\* line 79 and the end of the script: the courses are exhausted
Complete ==
    /\ pc = "course"
    /\ ci > Len(Courses(data))
    /\ out' = Append(out, <<"Download process completed!">>)
    /\ pc' = "exit"
    /\ exit_status' = 0
    /\ UNCHANGED <<args, json_data, main_vars, fs_vars, net, err, sanitize_vars>>

\* line 62: the materials of the course are exhausted
EndCourse ==
    /\ pc = "material"
    /\ mi > Len(Materials(course))
    /\ ci' = ci + 1
    /\ pc' = "course"
    /\ UNCHANGED <<args, json_data, data, mi, response, status, fs_vars, net, out, err, exit_status, sanitize_vars>>

\* lines 62-68: the material has no link or is a placeholder, "continue"
SkipMaterial ==
    /\ pc = "material"
    /\ mi <= Len(Materials(course))
    /\ Skip(course, material)
    /\ status' = [status EXCEPT ![<<ci, mi>>] = "skipped"]
    /\ mi' = mi + 1
    /\ UNCHANGED <<pc, args, json_data, data, ci, response, fs_vars, net, out, err, exit_status, sanitize_vars>>

\* lines 62-74 with the download started and not waited for
CallDownload_nowait ==
    /\ pc = "material"
    /\ mi <= Len(Materials(course))
    /\ ~Skip(course, material)
    /\ status' = [status EXCEPT ![<<ci, mi>>] = "downloading"]
    /\ mi' = mi + 1
    /\ UNCHANGED <<pc, args, json_data, data, ci, response, fs_vars, net, out, err, exit_status, sanitize_vars>>

\* lines 62-74: download_file(file_link, file_path) is called
CallDownload ==
    /\ pc = "material"
    /\ mi <= Len(Materials(course))
    /\ ~Skip(course, material)
    /\ status' = [status EXCEPT ![<<ci, mi>>] = "downloading"]
    /\ pc' = "get"
    /\ UNCHANGED <<args, json_data, data, ci, mi, response, fs_vars, net, out, err, exit_status, sanitize_vars>>

\* lines 25-27 and 77: download_file prints the error and returns False
DownloadFails ==
    /\ out' = Append(out, <<"Error downloading", url>>)
    /\ status' = [status EXCEPT ![<<ci, mi>>] = "failed"]
    /\ pc' = "sleep"

\* lines 12-13: the request is answered with a success status
GetOk ==
    /\ pc = "get"
    /\ net' = Append(net, <<ci, mi, url>>)
    /\ response' = RemoteBody(url)
    /\ pc' = "makedirs"
    /\ UNCHANGED <<args, json_data, data, ci, mi, status, fs_vars, out, err, exit_status, sanitize_vars>>

\* line 12: requests.get raises (connection error, timeout, bad address)
GetTransportError ==
    /\ pc = "get"
    /\ net' = Append(net, <<ci, mi, url>>)
    /\ DownloadFails
    /\ UNCHANGED <<args, json_data, data, ci, mi, response, fs_vars, err, exit_status, sanitize_vars>>

\* line 13: raise_for_status raises on a 4xx or 5xx status
GetHttpError ==
    /\ pc = "get"
    /\ net' = Append(net, <<ci, mi, url>>)
    /\ DownloadFails
    /\ UNCHANGED <<args, json_data, data, ci, mi, response, fs_vars, err, exit_status, sanitize_vars>>

\* line 16: "os.makedirs(os.path.dirname(destination_path), exist_ok=True)"
DownloadMakedirs ==
    /\ pc = "makedirs"
    /\ MakedirsOk(files, Dirname(destination_path))
    /\ dirs' = Makedirs(dirs, Dirname(destination_path))
    /\ pc' = "open"
    /\ UNCHANGED <<args, json_data, main_vars, files, net, out, err, exit_status, sanitize_vars>>

\* line 16: the directory of the destination cannot be created
DownloadMakedirsFails ==
    /\ pc = "makedirs"
    /\ DownloadFails
    /\ response' = <<>>
    /\ UNCHANGED <<args, json_data, data, ci, mi, fs_vars, net, err, exit_status, sanitize_vars>>

\* line 19: "open(destination_path, 'wb')" creates the file or empties it
DownloadOpen ==
    /\ pc = "open"
    /\ OpenOk(dirs, files, destination_path)
    /\ files' = Truncate(files, destination_path)
    /\ pc' = "write"
    /\ UNCHANGED <<args, json_data, main_vars, dirs, net, out, err, exit_status, sanitize_vars>>

\* line 19: the destination cannot be opened (it is a directory, or an OSError)
DownloadOpenFails ==
    /\ pc = "open"
    /\ DownloadFails
    /\ response' = <<>>
    /\ UNCHANGED <<args, json_data, data, ci, mi, fs_vars, net, err, exit_status, sanitize_vars>>

\* lines 20-21: the next chunk is written
DownloadWrite ==
    /\ pc = "write"
    /\ response # <<>>
    /\ files' = WriteChunk(files, destination_path, Head(response))
    /\ response' = Tail(response)
    /\ UNCHANGED <<pc, args, json_data, data, ci, mi, status, dirs, net, out, err, exit_status, sanitize_vars>>

\* lines 20-21: reading or writing the next chunk raises; the file stays as it is
DownloadWriteFails ==
    /\ pc = "write"
    /\ response # <<>>
    /\ DownloadFails
    /\ response' = <<>>
    /\ UNCHANGED <<args, json_data, data, ci, mi, fs_vars, net, err, exit_status, sanitize_vars>>

\* lines 23-24: the body is written, download_file returns True
DownloadDone ==
    /\ pc = "write"
    /\ response = <<>>
    /\ out' = Append(out, <<"Downloaded", destination_path>>)
    /\ status' = [status EXCEPT ![<<ci, mi>>] = "completed"]
    /\ pc' = "sleep"
    /\ UNCHANGED <<args, json_data, data, ci, mi, response, fs_vars, net, err, exit_status, sanitize_vars>>

\* line 77 followed by the same material again
Sleep_retry ==
    /\ pc = "sleep"
    /\ pc' = "material"
    /\ UNCHANGED <<args, json_data, data, ci, mi, response, status, fs_vars, net, out, err, exit_status, sanitize_vars>>

\* line 77: "time.sleep(0.5)", then the next material
Sleep ==
    /\ pc = "sleep"
    /\ mi' = mi + 1
    /\ pc' = "material"
    /\ UNCHANGED <<args, json_data, data, ci, response, status, fs_vars, net, out, err, exit_status, sanitize_vars>>

Next ==
    \/ UseJsonString \/ ReadJsonFile \/ JsonFileNotFound \/ JsonFileUnreadable \/ NoInput
    \/ Validate \/ InvalidJson
    \/ MakeBaseDir \/ MakeBaseDirFails \/ Loads \/ LoadsNotDict
    \/ StartCourse \/ CourseDirExists \/ CourseDirFails \/ Complete
    \/ EndCourse \/ SkipMaterial \/ CallDownload
    \/ GetOk \/ GetTransportError \/ GetHttpError
    \/ DownloadMakedirs \/ DownloadMakedirsFails
    \/ DownloadOpen \/ DownloadOpenFails
    \/ DownloadWrite \/ DownloadWriteFails \/ DownloadDone
    \/ Sleep

Spec == Init /\ [][Next]_vars

-----------------------------------------------------------------------------
\* sanitize_filename applied to arbitrary strings.

\* the nine characters replaced, and characters that are kept: a letter, the
\* replacement itself, a blank and a non-ASCII letter
SanitizeChars == {"<", ">", ":", "\"", "/", "\\", "|", "?", "*", "a", "_", " ", "é"}

SanitizeInputs == UNION {[1..n -> SanitizeChars] : n \in 0..MaxLen}

InitSanitize ==
    /\ pc = "sanitize"
    /\ filename \in SanitizeInputs
    /\ result = <<>>
    /\ result2 = <<>>
    /\ args = [json_file |-> FALSE, json_string |-> FALSE, text |-> NoText]
    /\ json_data = NoText
    /\ data = <<>>
    /\ ci = 0
    /\ mi = 0
    /\ dirs = {<<>>}
    /\ files = <<>>
    /\ response = <<>>
    /\ net = <<>>
    /\ status = <<>>
    /\ out = <<>>
    /\ err = "none"
    /\ exit_status = -1

\* lines 29-35: sanitize_filename(filename)
Sanitize ==
    /\ pc = "sanitize"
    /\ result' = sanitize_filename(filename)
    /\ pc' = "sanitized"
    /\ UNCHANGED <<args, json_data, main_vars, fs_vars, net, out, err, exit_status, filename, result2>>

\* lines 29-35: sanitize_filename applied to its own result
SanitizeAgain ==
    /\ pc = "sanitized"
    /\ result2' = sanitize_filename(result)
    /\ pc' = "resanitized"
    /\ UNCHANGED <<args, json_data, main_vars, fs_vars, net, out, err, exit_status, filename, result>>

NextSanitize == Sanitize \/ SanitizeAgain

SpecSanitize == InitSanitize /\ [][NextSanitize]_vars

-----------------------------------------------------------------------------
\* Vocabulary of the properties.

Ids == DOMAIN status
CourseOf(m) == Courses(data)[m[1]]
MaterialOf(m) == Materials(CourseOf(m))[m[2]]
\* the address of a material and the identifier of its course, absent keys
\* read as the empty string
Address(m) == IF "link" \in DOMAIN MaterialOf(m) THEN MaterialOf(m).link ELSE <<>>
Identifier(m) == IF "uuid" \in DOMAIN CourseOf(m) THEN CourseOf(m).uuid ELSE <<>>
\* the address is empty or ends with the identifier of the course
Placeholder(m) ==
    \/ Address(m) = <<>>
    \/ \E k \in 0..Len(Address(m)) : SubSeq(Address(m), k + 1, Len(Address(m))) = Identifier(m)
Attempted(m) == status[m] \in {"downloading", "completed", "failed"}
Terminal(m) == status[m] \in {"skipped", "completed", "failed"}
Requests(m) == {k \in 1..Len(net) : net[k][1] = m[1] /\ net[k][2] = m[2]}
Printed(line) == \E k \in 1..Len(out) : out[k] = line
\* output_dir/sanitize(title)/sanitize(fileName), as a file-system node
TitleOf(c) == IF "title" \in DOMAIN c THEN c.title ELSE Str_Unknown
FileNameOf(x) == IF "fileName" \in DOMAIN x THEN x.fileName ELSE Str_unknown_file
CourseNode(c) == Resolve(Str_downloads \o <<"/">> \o sanitize_filename(TitleOf(c)))
Destination(m) ==
    Resolve(Str_downloads \o <<"/">> \o sanitize_filename(TitleOf(CourseOf(m)))
            \o <<"/">> \o sanitize_filename(FileNameOf(MaterialOf(m))))
\* the directories directly under the output directory
CourseDirs == {n \in dirs : Len(n) = 2 /\ n[1] = Str_downloads}
PreFlight == {"NoInput", "FileNotFoundError", "ReadError", "JSONDecodeError"}

-----------------------------------------------------------------------------
\* C1: a failed material is reported and never stops the batch: once the
\* program has ended without an outside fault in creating the output or a course
\* directory, every material after a failed one whose address is non-empty and
\* no placeholder has been attempted, and the completion line is printed.
C1_FailureNeverStopsBatch ==
    (pc = "exit" /\ err # "OSError") =>
        \A m \in Ids : status[m] = "failed" =>
            /\ Printed(<<"Error downloading", Address(m)>>)
            /\ \A m2 \in Ids : (Before(m, m2) /\ ~Placeholder(m2)) => Attempted(m2)
            /\ Printed(<<"Download process completed!">>)

\* C2: a material whose address is empty or ends with the uuid of its course
\* leaves pending only to be skipped, by a step that issues no request and
\* creates no file or directory, and no request or file is ever made for it;
\* every other material leaves pending only by being handed to download_file,
\* and a run completes only when no material is pending.
C2_SkipStep ==
    /\ \A m \in Ids \cap DOMAIN status' :
        (status[m] = "pending" /\ status'[m] # "pending") =>
            IF Placeholder(m)
            THEN status'[m] = "skipped" /\ files' = files /\ dirs' = dirs /\ net' = net
            ELSE status'[m] = "downloading"
    /\ (net' # net \/ files' # files) =>
            (status[<<ci, mi>>] = "downloading" /\ ~Placeholder(<<ci, mi>>))
    /\ net' # net => net' = Append(net, <<ci, mi, Address(<<ci, mi>>)>>)
    /\ (exit_status # 0 /\ exit_status' = 0) => \A m \in Ids : status[m] # "pending"

C2_PlaceholdersSkipped == [][C2_SkipStep]_vars

C2_Witness ==
    /\ pc = "exit" /\ exit_status = 0
    /\ \E m \in Ids : Address(m) = <<>> /\ status[m] = "skipped"
    /\ \E m \in Ids : Address(m) # <<>> /\ Placeholder(m) /\ Identifier(m) # <<>>
                      /\ status[m] = "skipped"

\* C3: when download_file has returned True for a material, the file at
\* output_dir/sanitize(title)/sanitize(fileName) exists and holds exactly the
\* body of the resource at the material's address.
C3_FetchedFileHoldsBody ==
    (pc = "sleep" /\ status[<<ci, mi>>] = "completed") =>
        /\ Destination(<<ci, mi>>) \in DOMAIN files
        /\ files[Destination(<<ci, mi>>)] = RemoteBody(Address(<<ci, mi>>))

\* the second of two materials fetched to one path has just completed
C3_Witness ==
    /\ pc = "sleep" /\ status[<<ci, mi>>] = "completed"
    /\ \E m \in Ids : /\ m # <<ci, mi>>
                      /\ Destination(m) = Destination(<<ci, mi>>)
                      /\ status[m] \in {"completed", "failed"}
                      /\ Requests(m) # {}

\* C4: sanitize_filename(s) contains none of the nine characters, keeps every
\* other character at its position, returns the empty string for the empty
\* string, and applied again returns its argument.
C4_SanitizeContract ==
    /\ pc \in {"sanitized", "resanitized"} =>
        /\ Len(result) = Len(filename)
        /\ \A i \in 1..Len(result) :
            /\ \A k \in 1..Len(invalid_chars) : result[i] # invalid_chars[k]
            /\ (filename[i] \notin {"<", ">", ":", "\"", "/", "\\", "|", "?", "*"})
                    => result[i] = filename[i]
            /\ result[i] \notin {"<", ">", ":", "\"", "/", "\\", "|", "?", "*"}
        /\ (filename = <<>> => result = <<>>)
    /\ pc = "resanitized" => result2 = result

C4_Witness ==
    /\ pc = "resanitized"
    /\ Len(filename) = 2 /\ filename[1] = "*" /\ filename[2] = "a"
    /\ result # filename

\* C5: when the document text is not well-formed the program ends with a
\* non-zero status, and no request is issued and no directory or file is
\* created at any moment.
C5_MalformedStopsBeforeAnyEffect ==
    (json_data # NoText /\ ~json_data.wf) =>
        /\ pc \in {"validate", "exit"}
        /\ pc = "exit" => (exit_status = 1 /\ err = "JSONDecodeError")
        /\ net = <<>>
        /\ dirs = {<<>>}
        /\ files = <<>>

C5_Witness == pc = "exit" /\ json_data # NoText /\ ~json_data.wf /\ exit_status = 1

\* C6: after a completed run the number of course directories under the
\* output directory equals the number of distinct sanitized course titles.
C6_OneDirPerDistinctTitle ==
    (pc = "exit" /\ exit_status = 0) =>
        Cardinality(CourseDirs)
            = Cardinality({sanitize_filename(TitleOf(Courses(data)[i])) : i \in 1..Len(Courses(data))})

\* C7 as stated: the exit status is 0 when the batch runs to completion and
\* non-zero exactly in the pre-flight failure cases.
C7_NonZeroOnlyPreFlight ==
    pc = "exit" =>
        /\ Printed(<<"Download process completed!">>) => exit_status = 0
        /\ exit_status # 0 <=> err \in PreFlight

\* C7 amended: the exit status is 0 exactly when the batch reaches its completion
\* line, whatever number of materials failed; it is non-zero in the pre-flight
\* cases, before any directory or request, and whenever an exception leaves main:
\* a directory cannot be created, or the document is not an object.
C7_ExitStatus ==
    pc = "exit" =>
        /\ exit_status \in {0, 1}
        /\ exit_status = 0 <=> Printed(<<"Download process completed!">>)
        /\ exit_status = 0 => (err = "none" /\ \A m \in Ids : Terminal(m))
        /\ exit_status # 0 <=>
                err \in PreFlight \cup {"OSError", "FileExistsError", "AttributeError"}
        /\ err \in PreFlight => (dirs = {<<>>} /\ net = <<>> /\ status = <<>>)

\* a run that ends with status 0 although a material failed
C7_Witness == pc = "exit" /\ exit_status = 0 /\ \E m \in Ids : status[m] = "failed"

\* C8: a material moves pending -> skipped, pending -> downloading,
\* downloading -> completed or downloading -> failed and in no other way, and
\* at most one request is issued for it.
C8_StatusStep ==
    \A m \in Ids \cap DOMAIN status' :
        \/ status'[m] = status[m]
        \/ <<status[m], status'[m]>> \in
              {<<"pending", "skipped">>, <<"pending", "downloading">>,
               <<"downloading", "completed">>, <<"downloading", "failed">>}

\* a request is the first one of the material that is downloading
C8_RequestStep ==
    net' # net =>
        /\ net' = Append(net, <<ci, mi, Address(<<ci, mi>>)>>)
        /\ status[<<ci, mi>>] = "downloading"
        /\ Requests(<<ci, mi>>) = {}

C8_MaterialStateMachine ==
    [][C8_StatusStep /\ (Ids # {} => DOMAIN status' = Ids) /\ C8_RequestStep]_vars

\* a completed run with a skipped material and a failed one, fetched once
C8_Witness ==
    /\ pc = "exit" /\ exit_status = 0
    /\ \E m \in Ids : status[m] = "skipped" /\ Requests(m) = {}
    /\ \E m \in Ids : status[m] = "failed" /\ Cardinality(Requests(m)) = 1

\* C9: at most one material is downloading, a material leaves pending only
\* after every earlier material in document order is skipped, completed or
\* failed, and the requests are issued in document order.
C9_Sequential ==
    /\ Cardinality({m \in Ids : status[m] = "downloading"}) <= 1
    /\ \A m \in Ids : status[m] # "pending" =>
            \A m2 \in Ids : Before(m2, m) => Terminal(m2)
    /\ \A j, k \in 1..Len(net) : j < k => Before(<<net[j][1], net[j][2]>>, <<net[k][1], net[k][2]>>)

C9_Witness ==
    \E m, m2 \in Ids : /\ Before(m2, m) /\ m[1] # m2[1]
                       /\ status[m] = "downloading" /\ status[m2] = "failed"
                       /\ Len(net) = 2

\* C10: in a course without a uuid every material is skipped whatever its
\* address: it leaves pending only to be skipped, by a step that issues no
\* request and creates no file, in a course whose directory exists, and no
\* request or file is ever made for it.
C10_Step ==
    /\ \A m \in Ids \cap DOMAIN status' :
        ("uuid" \notin DOMAIN CourseOf(m) /\ status[m] = "pending" /\ status'[m] # "pending") =>
            /\ status'[m] = "skipped"
            /\ files' = files /\ net' = net
            /\ CourseNode(CourseOf(m)) \in dirs
    /\ (net' # net \/ files' # files) => "uuid" \in DOMAIN Courses(data)[ci]
    /\ (exit_status # 0 /\ exit_status' = 0) =>
            \A m \in Ids : "uuid" \notin DOMAIN CourseOf(m) => status[m] = "skipped"

C10_NoUuidSkipsAll == [][C10_Step]_vars

C10_Witness ==
    \E m \in Ids : /\ "uuid" \notin DOMAIN CourseOf(m)
                   /\ Address(m) = <<"h">>
                   /\ status[m] = "skipped"
                   /\ CourseNode(CourseOf(m)) \in dirs
                   /\ files = <<>>

====
